---------------------------- MODULE Spec2Model ----------------------------
(***************************************************************************)
(* Model of the movie trailer finder: the column detector                  *)
(* (src/csv_handler/parser.py) and the file update driver                  *)
(* (src/core/processor.py) with the adapters it calls                      *)
(* (src/search/youtube.py, src/search/tmdb.py).                            *)
(*                                                                         *)
(* Text is a sequence of one-character strings, so that lower(), strip(),  *)
(* the `in` substring test, split and join are computed, not assumed.      *)
(* Column indices are 0-based as in Python; Python's None is None == -1.   *)
(***************************************************************************)
EXTENDS Integers, Sequences, FiniteSets, TLC

(***************************************************************************)
(* Bounds of the model.                                                    *)
(***************************************************************************)
\* longest header the column-detector specification enumerates
MaxCols == 3
\* most data rows of an input file
MaxRows == 2
\* most successive runs on the same file
MaxRuns == 2

None == -1

(***************************************************************************)
(* Text primitives (Python str methods used by the sources).               *)
(***************************************************************************)
UpperChars ==
  <<"A","B","C","D","E","F","G","H","I","J","K","L","M",
    "N","O","P","Q","R","S","T","U","V","W","X","Y","Z">>

LowerChars ==
  <<"a","b","c","d","e","f","g","h","i","j","k","l","m",
    "n","o","p","q","r","s","t","u","v","w","x","y","z">>

LowerChar(c) ==
  IF \E i \in 1..26 : UpperChars[i] = c
    THEN LowerChars[CHOOSE i \in 1..26 : UpperChars[i] = c]
    ELSE c

\* str.lower()
lower(s) == [i \in 1..Len(s) |-> LowerChar(s[i])]

IsSpace(c) == c \in {" ", "\t"}

RECURSIVE lstrip(_)
lstrip(s) ==
  IF s # <<>> /\ IsSpace(Head(s)) THEN lstrip(Tail(s)) ELSE s

RECURSIVE rstrip(_)
rstrip(s) ==
  IF s # <<>> /\ IsSpace(s[Len(s)]) THEN rstrip(SubSeq(s, 1, Len(s) - 1)) ELSE s

\* str.strip()
strip(s) == rstrip(lstrip(s))

\* Python's `k in s` on strings: k occurs in s as a contiguous substring
Contains(s, k) ==
  \E i \in 1..(Len(s) - Len(k) + 1) : SubSeq(s, i, i + Len(k) - 1) = k

\* any(keyword in col_lower for keyword in keywords)
AnyKeywordIn(keywords, col_lower) ==
  \E j \in 1..Len(keywords) : Contains(col_lower, keywords[j])

(***************************************************************************)
(* Column detector: find_column_indices.                                   *)
(***************************************************************************)
title_keywords ==
  << <<"t","i","t","l","e">>, <<"m","o","v","i","e">>,
     <<"f","i","l","m">>, <<"n","a","m","e">> >>

director_keywords ==
  << <<"d","i","r","e","c","t","o","r">>, <<"d","i","r","e","c","t","e","d">>,
     <<"f","i","l","m","m","a","k","e","r">> >>

year_keywords ==
  << <<"y","e","a","r">>, <<"d","a","t","e">>,
     <<"r","e","l","e","a","s","e","d">> >>

trailer_keywords ==
  << <<"t","r","a","i","l","e","r">>, <<"l","i","n","k">>,
     <<"u","r","l">>, <<"v","i","d","e","o">> >>

\* One iteration of the loop over enumerate(header): the if/elif chain.
\* acc = <<title_col, director_col, year_col, trailer_col>>, i is 0-based.
ScanColumn(acc, i, col_name) ==
  LET col_lower == strip(lower(col_name)) IN
    IF acc[1] = None /\ AnyKeywordIn(title_keywords, col_lower)
      THEN [acc EXCEPT ![1] = i]
    ELSE IF acc[2] = None /\ AnyKeywordIn(director_keywords, col_lower)
      THEN [acc EXCEPT ![2] = i]
    ELSE IF acc[3] = None /\ AnyKeywordIn(year_keywords, col_lower)
      THEN [acc EXCEPT ![3] = i]
    ELSE IF acc[4] = None /\ AnyKeywordIn(trailer_keywords, col_lower)
      THEN [acc EXCEPT ![4] = i]
    ELSE acc

RECURSIVE ScanColumns(_, _, _)
ScanColumns(header, n, acc) ==
  IF n > Len(header) THEN acc
  ELSE ScanColumns(header, n + 1, ScanColumn(acc, n - 1, header[n]))

\* a variant that returns a fifth value, a related-films index that no
\* keyword ever sets
find_column_indices_five(header) ==
  Append(ScanColumns(header, 1, <<None, None, None, None>>), None)

\* The tuple the function returns: four values, no related-films index.
find_column_indices(header) ==
  ScanColumns(header, 1, <<None, None, None, None>>)


(***************************************************************************)
(* csv.reader / csv.writer on one line, for cells that hold neither the    *)
(* delimiter nor a quote character (the only cells the model uses).        *)
(***************************************************************************)
RECURSIVE Fields(_, _, _)
Fields(s, d, cur) ==
  IF s = <<>> THEN <<cur>>
  ELSE IF Head(s) = d THEN <<cur>> \o Fields(Tail(s), d, <<>>)
  ELSE Fields(Tail(s), d, Append(cur, Head(s)))

\* csv.reader: a blank line is the empty row, any other line splits on d
ReadRow(line, d) == IF line = <<>> THEN <<>> ELSE Fields(line, d, <<>>)

RECURSIVE WriteRow(_, _)
WriteRow(cells, d) ==
  IF cells = <<>> THEN <<>>
  ELSE IF Len(cells) = 1 THEN cells[1]
  ELSE cells[1] \o <<d>> \o WriteRow(Tail(cells), d)

\* open(path, mode): what is on disk once the file is open ("w" truncates)
open(f, mode) == IF mode = "w" THEN <<>> ELSE f

(***************************************************************************)
(* The input files the model runs on: lines of text on disk.               *)
(***************************************************************************)
Delimiters == {";", ","}

ColTitle    == <<"T","i","t","l","e">>
ColDirector == <<"D","i","r","e","c","t","o","r">>
ColYear     == <<"Y","e","a","r">>
ColTrailer  == <<"T","r","a","i","l","e","r">>
ColRelated  == <<"R","e","l","a","t","e","d"," ","f","i","l","m","s">>
ColNotes    == <<"N","o","t","e","s">>

InputHeaders ==
  { <<ColTitle, ColDirector, ColYear>>,
    <<ColTitle, ColDirector, ColYear, ColTrailer>>,
    <<ColTitle, ColDirector, ColYear, ColTrailer, ColRelated>>,
    <<ColTitle, ColYear, ColNotes>> }

CellTitle    == <<"A","r","r","i","v","a","l">>
CellDirector == <<"D","V">>
CellYear     == <<"2","0","1","6">>
CellTrailer  == <<"o","l","d">>
CellRelated  == <<"D","u","n","e">>

RowKinds == {"full", "blank", "space", "notitle"}

\* the cell of a data row of the given kind in column i (1-based)
InputCell(kind, i) ==
  IF i = 1 THEN (IF kind = "notitle" THEN <<>> ELSE CellTitle)
  ELSE IF i = 2 THEN CellDirector
  ELSE IF i = 3 THEN CellYear
  ELSE IF kind = "blank" THEN <<>>
  ELSE IF kind = "space" THEN <<" ">>
  ELSE IF i = 4 THEN CellTrailer
  ELSE CellRelated

InputRow(kind, width) == [i \in 1..width |-> InputCell(kind, i)]

RowKindSeqs == UNION { [1..n -> RowKinds] : n \in 0..MaxRows }

FileText(hdr_cells, kinds, d) ==
  <<WriteRow(hdr_cells, d)>> \o
  [r \in 1..Len(kinds) |-> WriteRow(InputRow(kinds[r], Len(hdr_cells)), d)]

InputFiles ==
  { <<>> } \cup
  { FileText(h, ks, d) : h \in InputHeaders, ks \in RowKindSeqs, d \in Delimiters }


(***************************************************************************)
(* Adapters as the driver sees them.  The environment supplies what the    *)
(* remote service answers; the adapter turns it into its return value.     *)
(***************************************************************************)
WatchPrefix ==
  <<"h","t","t","p","s",":","/","/","w","w","w",".","y","o","u","t","u","b","e",
    ".","c","o","m","/","w","a","t","c","h","?","v","=">>

\* length of a video id: the regex watch\?v=(\S{11})
VideoIdLen == 11

VideoIdA == <<"d","Q","w","4","w","9","W","g","X","c","Q">>

\* answers of the web search endpoint: a transport or HTTP error, a page
\* without any video id, a page whose first video id is VideoIdA
YoutubeResponses ==
  { [ok |-> FALSE, ids |-> <<>>],
    [ok |-> TRUE, ids |-> <<>>],
    [ok |-> TRUE, ids |-> <<VideoIdA>>] }

\* search_youtube: the watch URL of the first id, or <<>> for Python's None
search_youtube(response) ==
  IF response.ok /\ response.ids # <<>>
    THEN WatchPrefix \o response.ids[1]
    ELSE <<>>

FilmA == <<"D","u","n","e">>
FilmB == <<"S","i","c","a","r","i","o">>

\* what get_director_popular_movies returns to the driver
RelatedResults == { <<>>, <<FilmA>>, <<FilmA, FilmB>> }

RelatedSeparator == <<" ","|"," ">>

\* format_related_films: " | ".join(movies), "" for no movies
RECURSIVE format_related_films(_)
format_related_films(movies) ==
  IF movies = <<>> THEN <<>>
  ELSE IF Len(movies) = 1 THEN movies[1]
  ELSE movies[1] \o RelatedSeparator \o format_related_films(Tail(movies))

\* a variant without the check of the key
test_tmdb_connection_unkeyed(key, answer) == answer = "results"

\* test_tmdb_connection: FALSE without a key, without touching the network;
\* with a key, TRUE only when the person search returns at least one result
\* (the bare except turns every error, an interrupt included, into FALSE)
test_tmdb_connection(key, answer) ==
  IF ~key THEN FALSE ELSE answer = "results"

\* whether test_tmdb_connection reaches person.search (an outbound call)
test_tmdb_calls(key) == key

TmdbAnswers == {"results", "empty", "error", "interrupted"}


(***************************************************************************)
(* parse_multiple_directors (src/search/tmdb.py).  The substitution        *)
(*   re.sub(r'\s*[&+/]\s*|\s+and\s+|\s*,\s*', ',', s)                      *)
(* is computed by scanning s from the left, as the regex engine does.      *)
(***************************************************************************)
\* the character class [&+/]
SeparatorChars == {"&", "+", "/"}

AndWord == <<"a","n","d">>

\* the first index at or after i that holds no whitespace (Len(s) + 1 if
\* there is none): where a greedy \s* that starts at i ends
RECURSIVE SkipSpace(_, _)
SkipSpace(s, i) ==
  IF i <= Len(s) /\ IsSpace(s[i]) THEN SkipSpace(s, i + 1) ELSE i

\* the pattern tried at index i, where j = SkipSpace(s, i): the index
\* after the match, or 0 when no alternative matches at i.  The
\* alternatives are tried in the order they are written.
MatchFrom(s, i, j) ==
  IF j <= Len(s) /\ s[j] \in SeparatorChars
    THEN SkipSpace(s, j + 1)
  ELSE IF /\ j > i /\ j + 3 <= Len(s)
          /\ SubSeq(s, j, j + 2) = AndWord /\ IsSpace(s[j + 3])
    THEN SkipSpace(s, j + 3)
  ELSE IF j <= Len(s) /\ s[j] = ","
    THEN SkipSpace(s, j + 1)
  ELSE 0

MatchSeparator(s, i) == MatchFrom(s, i, SkipSpace(s, i))

\* re.sub: every leftmost non-overlapping match becomes one comma
RECURSIVE Normalize(_, _, _)
Normalize(s, i, out) ==
  IF i > Len(s) THEN out
  ELSE IF MatchSeparator(s, i) # 0
    THEN Normalize(s, MatchSeparator(s, i), Append(out, ","))
  ELSE Normalize(s, i + 1, Append(out, s[i]))

\* normalized.split(',') with each piece stripped (line 44)
StrippedNames(normalized) ==
  [k \in 1..Len(Fields(normalized, ",", <<>>)) |->
     strip(Fields(normalized, ",", <<>>)[k])]

\* a variant that keeps every non-empty name
KeepNameAny(name) == name # <<>>

\* line 45: if name and len(name) > 1
KeepName(name) == name # <<>> /\ Len(name) > 1

\* parse_multiple_directors, lines 34-48
parse_multiple_directors(s) ==
  IF s = <<>> \/ strip(s) = <<>> THEN <<>>
  ELSE SelectSeq(StrippedNames(Normalize(strip(s), 1, <<>>)), KeepName)

(***************************************************************************)
(* search_single_director and get_director_popular_movies                  *)
(* (src/search/tmdb.py).  The film service answers each director with a    *)
(* record: how the person search went, how the credits fetch went, and    *)
(* the crew list of the credits.                                           *)
(***************************************************************************)
\* limit=3 in the call of processor.py line 179
RelatedLimit == 3

\* Python's max on two integers
Max2(a, b) == IF a >= b THEN a ELSE b

\* s[:n]
Take(s, n) == SubSeq(s, 1, IF Len(s) < n THEN Len(s) ELSE n)

\* line 158: job == "Director" and title
IsDirected(movie) == movie.job = "Director" /\ movie.title # <<>>

\* list.sort(key=popularity, reverse=True) is stable: m goes before the
\* first entry that is less popular
RECURSIVE InsertByPopularity(_, _)
InsertByPopularity(sorted, m) ==
  IF sorted = <<>> THEN <<m>>
  ELSE IF Head(sorted).popularity < m.popularity THEN <<m>> \o sorted
  ELSE <<Head(sorted)>> \o InsertByPopularity(Tail(sorted), m)

RECURSIVE SortByPopularity(_, _)
SortByPopularity(movies, sorted) ==
  IF movies = <<>> THEN sorted
  ELSE SortByPopularity(Tail(movies), InsertByPopularity(sorted, Head(movies)))

\* lines 145-173: the titles of the limit most popular directing credits
TopTitles(crew, limit) ==
  [k \in 1..Len(Take(SortByPopularity(SelectSeq(crew, IsDirected), <<>>), limit))
     |-> SortByPopularity(SelectSeq(crew, IsDirected), <<>>)[k].title]

DirectorResult(raised, titles) == [raised |-> raised, titles |-> titles]

\* a variant without the try blocks: an error of the service is raised to
\* the caller
search_single_director_raising(answer, limit) ==
  IF answer.search = "error" \/ (answer.search = "found" /\ answer.credits = "error")
    THEN DirectorResult(TRUE, <<>>)
  ELSE IF answer.search # "found" THEN DirectorResult(FALSE, <<>>)
  ELSE DirectorResult(FALSE, TopTitles(answer.crew, limit))

\* search_single_director, lines 63-187: every failure (the search raises,
\* no result, a result without id, the credits fetch raises) returns []
search_single_director(answer, limit) ==
  IF answer.search # "found" THEN DirectorResult(FALSE, <<>>)
  ELSE IF answer.credits # "ok" THEN DirectorResult(FALSE, <<>>)
  ELSE DirectorResult(FALSE, TopTitles(answer.crew, limit))

\* line 221
movies_per_director(n, limit) ==
  IF n > 1 THEN Max2(1, limit \div n) ELSE limit

\* lines 223-225: all_movies after the directors from k on; an exception
\* of a lookup ends the loop
RECURSIVE CollectMovies(_, _, _, _, _)
CollectMovies(n, k, per, answers, acc) ==
  IF k > n \/ acc.raised THEN acc
  ELSE CollectMovies(n, k + 1, per, answers,
         DirectorResult(search_single_director(answers[k], per).raised,
                        acc.titles \o search_single_director(answers[k], per).titles))

\* line 230
CurrentTitleLower(title) == IF title # <<>> THEN strip(lower(title)) ELSE <<>>

\* a variant that tests equality only
MatchesCurrentExact(movie_lower, current_title_lower) ==
  current_title_lower # <<>> /\ movie_lower = current_title_lower

\* lines 240-244
MatchesCurrent(movie_lower, current_title_lower) ==
  /\ current_title_lower # <<>>
  /\ \/ movie_lower = current_title_lower
     \/ Contains(movie_lower, current_title_lower)
     \/ Contains(current_title_lower, movie_lower)

\* lines 232-248: seen holds the titles as they are written
RECURSIVE UniqueMovies(_, _, _, _, _)
UniqueMovies(all_movies, k, seen, current_title_lower, unique_movies) ==
  IF k > Len(all_movies) THEN unique_movies
  ELSE IF all_movies[k] \in seen
    THEN UniqueMovies(all_movies, k + 1, seen, current_title_lower,
                      unique_movies)
  ELSE IF MatchesCurrent(strip(lower(all_movies[k])), current_title_lower)
    THEN UniqueMovies(all_movies, k + 1, seen, current_title_lower,
                      unique_movies)
  ELSE UniqueMovies(all_movies, k + 1, seen \cup {all_movies[k]},
                    current_title_lower, Append(unique_movies, all_movies[k]))

\* lines 219-264 once the directors are parsed and collected
MergeMovies(collected, title, limit) ==
  IF collected.raised THEN <<>>
  ELSE Take(UniqueMovies(collected.titles, 1, {}, CurrentTitleLower(title),
                         <<>>), limit)

\* get_director_popular_movies, lines 204-264; answers[k] is what the
\* service answers for the k-th director of the field
get_director_popular_movies(key, name, title, limit, answers) ==
  IF ~key THEN <<>>
  ELSE MergeMovies(
         CollectMovies(Len(parse_multiple_directors(name)), 1,
                       movies_per_director(Len(parse_multiple_directors(name)),
                                           limit),
                       answers, DirectorResult(FALSE, <<>>)),
         title, limit)

(***************************************************************************)
(* update_csv_with_trailers, lines 52-217: from the column lookup to the   *)
(* summary, as operators on the in-memory table.                           *)
(***************************************************************************)
\* the unpacking assignment at line 52 has five targets
UnpackTargets == 5

\* lines 54-61: the required roles without a column
missing_cols(cols) ==
  (IF cols[1] = None THEN <<"title">> ELSE <<>>) \o
  (IF cols[2] = None THEN <<"director">> ELSE <<>>) \o
  (IF cols[3] = None THEN <<"year">> ELSE <<>>)

\* for row in rows: row.append("")
ExtendRows(rows) == [r \in 1..Len(rows) |-> Append(rows[r], <<>>)]

\* lines 68-82: the trailer column; yes is the user's answer to the prompt
TrailerStage(header, rows, trailer_col, dry_run, force, yes) ==
  IF trailer_col # None
    THEN [cancelled |-> FALSE, header |-> header, rows |-> rows,
          trailer_col |-> trailer_col, prompted |-> FALSE]
  ELSE IF ~force /\ ~dry_run /\ ~yes
    THEN [cancelled |-> TRUE, header |-> header, rows |-> rows,
          trailer_col |-> trailer_col, prompted |-> TRUE]
  ELSE [cancelled |-> FALSE, header |-> Append(header, ColTrailer),
        rows |-> ExtendRows(rows), trailer_col |-> Len(header),
        prompted |-> ~force /\ ~dry_run]

\* lines 84-98: the related-films column
RelatedStage(header, rows, related_films_col, dry_run, force, incl, yes) ==
  IF ~(incl /\ related_films_col = None)
    THEN [include_related |-> incl, header |-> header, rows |-> rows,
          related_films_col |-> related_films_col, prompted |-> FALSE]
  ELSE IF ~force /\ ~dry_run /\ ~yes
    THEN [include_related |-> FALSE, header |-> header, rows |-> rows,
          related_films_col |-> related_films_col, prompted |-> TRUE]
  ELSE [include_related |-> TRUE, header |-> Append(header, ColRelated),
        rows |-> ExtendRows(rows), related_films_col |-> Len(header),
        prompted |-> ~force /\ ~dry_run]

\* lines 121-123; c = <<title, director, year, trailer, related_films>>
max_col(c, incl) ==
  LET m == Max2(Max2(c[1], c[2]), Max2(c[3], c[4])) IN
    IF incl /\ c[5] # None THEN Max2(m, c[5]) ELSE m

\* lines 125-126: while len(row) <= max_col: row.append("")
PadRow(row, m) ==
  IF Len(row) <= m THEN row \o [k \in 1..(m + 1 - Len(row)) |-> <<>>] ELSE row

Digits == {"0","1","2","3","4","5","6","7","8","9"}

\* whether int(s) succeeds, for text without sign or underscore
IntOk(s) ==
  LET t == strip(s) IN t # <<>> /\ \A k \in 1..Len(t) : t[k] \in Digits

\* Python truthiness of (cell and cell.strip())
Filled(cell) == cell # <<>> /\ strip(cell) # <<>>

RowResult(status, row, found, related_found, calls) ==
  [status |-> status, row |-> row, found |-> found,
   related_found |-> related_found, calls |-> calls]

\* lines 159-189: the two lookups of a live run write their result, or the
\* empty string, into the cells that need it
FillRow(row, c, needs_trailer, needs_related, trailer_link, rel) ==
  [k \in 1..Len(row) |->
     IF needs_related /\ k = c[5] + 1
       THEN (IF rel # <<>> THEN format_related_films(rel) ELSE <<>>)
     ELSE IF needs_trailer /\ k = c[4] + 1
       THEN (IF trailer_link # <<>> THEN trailer_link ELSE <<>>)
     ELSE row[k]]

\* lines 128-193 on the padded row
DecideRow(row, c, dry_run, needs_trailer, needs_related, trailer_link, rel) ==
  IF row[c[1] + 1] = <<>> \/ row[c[2] + 1] = <<>> \/ row[c[3] + 1] = <<>>
    THEN RowResult("skipped", row, 0, 0, {})
  ELSE IF ~needs_trailer /\ ~needs_related
    THEN RowResult("skipped", row, 0, 0, {})
  ELSE IF dry_run
    THEN RowResult("processed", row, 0, 0, {})
  ELSE IF needs_trailer /\ ~IntOk(row[c[3] + 1])
    THEN RowResult("raised", row, 0, 0, {})
  ELSE RowResult("processed",
         FillRow(row, c, needs_trailer, needs_related, trailer_link, rel),
         IF needs_trailer /\ trailer_link # <<>> THEN 1 ELSE 0,
         IF needs_related /\ rel # <<>> THEN 1 ELSE 0,
         (IF needs_trailer THEN {"search_youtube"} ELSE {}) \cup
         (IF needs_related THEN {"get_director_popular_movies"} ELSE {}))

\* lines 138-141 on the padded row
NeedsRow(row, c, dry_run, incl, trailer_link, rel) ==
  DecideRow(row, c, dry_run,
            ~Filled(row[c[4] + 1]),
            incl /\ c[5] # None /\ ~Filled(row[c[5] + 1]),
            trailer_link, rel)

\* lines 120-193: one iteration of the row loop; yt and rel are what the
\* two adapters would answer for this row
ProcessRow(row0, c, dry_run, incl, yt, rel) ==
  NeedsRow(PadRow(row0, max_col(c, incl)), c, dry_run, incl,
           search_youtube(yt), rel)

LoopState(rows, processed, skipped, found, related_found, calls, raised) ==
  [rows |-> rows, processed |-> processed, skipped |-> skipped,
   found |-> found, related_found |-> related_found, calls |-> calls,
   raised |-> raised]

\* a variant that leaves a skipped row uncounted
AfterRowSkipUncounted(acc, i, r) ==
  LoopState([acc.rows EXCEPT ![i] = r.row],
            acc.processed + (IF r.status = "processed" THEN 1 ELSE 0),
            acc.skipped,
            acc.found + r.found,
            acc.related_found + r.related_found,
            acc.calls \cup r.calls,
            r.status = "raised")

\* the loop state after one more row with result r
AfterRow(acc, i, r) ==
  LoopState([acc.rows EXCEPT ![i] = r.row],
            acc.processed + (IF r.status = "processed" THEN 1 ELSE 0),
            acc.skipped + (IF r.status = "skipped" THEN 1 ELSE 0),
            acc.found + r.found,
            acc.related_found + r.related_found,
            acc.calls \cup r.calls,
            r.status = "raised")

\* lines 111-193: the loop; acc carries the table and the counters, and an
\* exception raised in a row ends the loop
RECURSIVE ProcessRows(_, _, _, _, _, _, _)
ProcessRows(acc, i, c, dry_run, incl, yts, rels) ==
  IF i > Len(acc.rows) \/ acc.raised THEN acc
  ELSE ProcessRows(
         AfterRow(acc, i,
                  ProcessRow(acc.rows[i], c, dry_run, incl, yts[i], rels[i])),
         i + 1, c, dry_run, incl, yts, rels)

NoReport ==
  [shown |-> FALSE, total |-> 0, processed |-> 0, skipped |-> 0, found |-> 0]

TableResult(outcome, header, rows, incl, prompts, calls, write, report) ==
  [outcome |-> outcome, header |-> header, rows |-> rows,
   include_related |-> incl, prompts |-> prompts, calls |-> calls,
   write |-> write, report |-> report]

\* lines 195-217 after the loop ended in state loop
Finish(ts, rs, loop, dry_run, total) ==
  IF loop.raised
    THEN TableResult("raised", rs.header, loop.rows, rs.include_related,
           (IF ts.prompted THEN {"trailer"} ELSE {}) \cup
           (IF rs.prompted THEN {"related"} ELSE {}),
           loop.calls, FALSE, NoReport)
    ELSE TableResult("complete", rs.header, loop.rows, rs.include_related,
           (IF ts.prompted THEN {"trailer"} ELSE {}) \cup
           (IF rs.prompted THEN {"related"} ELSE {}),
           loop.calls, ~dry_run,
           [shown |-> TRUE, total |-> total, processed |-> loop.processed,
            skipped |-> loop.skipped, found |-> loop.found])

\* lines 100-217 once both column stages are through
AfterRelated(ts, rs, c, dry_run, total, yts, rels) ==
  Finish(ts, rs,
         ProcessRows(LoopState(rs.rows, 0, 0, 0, 0, {}, FALSE), 1,
                     <<c[1], c[2], c[3], ts.trailer_col, rs.related_films_col>>,
                     dry_run, rs.include_related, yts, rels),
         dry_run, total)

\* lines 73-217 once the trailer stage is through
AfterTrailer(ts, header, rows, c, dry_run, force, incl, yes_r, yts, rels) ==
  IF ts.cancelled
    THEN TableResult("cancelled", header, rows, incl, {"trailer"}, {}, FALSE,
                     NoReport)
    ELSE AfterRelated(ts,
           RelatedStage(ts.header, ts.rows, c[5], dry_run, force, incl, yes_r),
           c, dry_run, Len(rows), yts, rels)

\* lines 54-217 for column indices c (five values)
RunTable(header, rows, c, dry_run, force, incl, yes_t, yes_r, yts, rels) ==
  IF missing_cols(c) # <<>>
    THEN TableResult("missing_columns", header, rows, incl, {}, {}, FALSE,
                     NoReport)
    ELSE AfterTrailer(TrailerStage(header, rows, c[4], dry_run, force, yes_t),
                      header, rows, c, dry_run, force, incl, yes_r, yts, rels)

\* lines 200-203: writer.writerow(header); writer.writerows(rows)
WriteTable(header, rows, d) ==
  <<WriteRow(header, d)>> \o [r \in 1..Len(rows) |-> WriteRow(rows[r], d)]


(***************************************************************************)
(* State.                                                                  *)
(***************************************************************************)
VARIABLES
  file,            \* the lines of the input file on disk
  file_exists,     \* Path(input_file).exists()
  readable,        \* whether the process may open the file
  api_key,         \* whether tmdb.api_key is set (TMDB_API_KEY)
  dry_run,         \* argument dry_run of the current run
  force,           \* argument force of the current run
  req_related,     \* argument include_related as passed by the caller
  include_related, \* the local include_related, which the run may clear
  pc,              \* position of the run in update_csv_with_trailers
  exc,             \* the exception being propagated to the handlers
  exit_code,       \* None while running, 0 on return, else the exit status
  delimiter,       \* local delimiter
  header,          \* local header
  rows,            \* local rows
  messages,        \* what the run has reported on the terminal
  config_error,    \* the missing-columns report of lines 64-65
  prompts,         \* the input() prompts the run has shown
  net_calls,       \* the outbound calls the run has issued
  opens,           \* the modes the run has opened the file with
  report,          \* the summary of lines 206-210
  runs,            \* runs started so far on this file
  start_file,      \* the file as it was when the current run started
  orig_file,       \* the file as it was before the first run
  hdr,             \* column detector alone: the header given
  cols_ret,        \* column detector alone: the tuple returned
  phase,           \* a function on its own: where it stands, else "off"
  director_string, \* parse_multiple_directors alone: the argument
  directors,       \* parse_multiple_directors alone: the list returned
  director_name,   \* get_director_popular_movies alone: the argument
  current_movie_title, \* get_director_popular_movies alone: the argument
  lookups,         \* what the film service answers for each director
  result,          \* get_director_popular_movies alone: the list returned
  row_i,           \* the row loop alone: rows dealt with so far
  counts,          \* the row loop alone: processed, skipped, found
  row_log          \* the row loop alone: status and calls of each row

env_vars == <<file_exists, readable, api_key, orig_file>>
arg_vars == <<dry_run, force, req_related>>
local_vars == <<delimiter, header, rows>>
col_vars == <<hdr, cols_ret, phase>>
tmdb_vars ==
  <<director_string, directors, director_name, current_movie_title, lookups,
    result>>
loop_vars == <<row_i, counts, row_log>>
vars ==
  <<file, file_exists, readable, api_key, dry_run, force, req_related,
    include_related, pc, exc, exit_code, delimiter, header, rows, messages,
    config_error, prompts, net_calls, opens, report, runs, start_file,
    orig_file, hdr, cols_ret, phase, director_string, directors,
    director_name, current_movie_title, lookups, result, row_i, counts,
    row_log>>

NoConfigError == [shown |-> FALSE, missing |-> <<>>, available |-> <<>>]

\* a variant that opens the file for writing
OpenModeW == "w"

\* mode of the open() at processor.py line 46
ReadOpenMode == "r"

\* mode of the open() in detect_delimiter, parser.py line 9
DetectOpenMode == "r"

\* the environment a sequence of runs starts in
Environments ==
  { [exists |-> TRUE, readable |-> rd, file |-> f] :
      rd \in BOOLEAN, f \in InputFiles } \cup
  { [exists |-> FALSE, readable |-> TRUE, file |-> <<>>] }

RunIdle ==
  /\ dry_run = FALSE /\ force = FALSE /\ req_related = FALSE
  /\ include_related = FALSE
  /\ pc = "idle" /\ exc = "" /\ exit_code = None
  /\ delimiter = "" /\ header = <<>> /\ rows = <<>>
  /\ messages = {} /\ config_error = NoConfigError
  /\ prompts = {} /\ net_calls = {} /\ opens = {}
  /\ report = NoReport /\ runs = 0

NoCounts == [processed |-> 0, skipped |-> 0, found |-> 0, related_found |-> 0]

\* the variables of the functions taken on their own, when not in use
TmdbIdle ==
  /\ director_string = <<>> /\ directors = <<>>
  /\ director_name = <<>> /\ current_movie_title = <<>>
  /\ lookups = <<>> /\ result = <<>>

LoopIdle == row_i = 0 /\ counts = NoCounts /\ row_log = <<>>

Init ==
  /\ \E e \in Environments :
       /\ file = e.file /\ file_exists = e.exists /\ readable = e.readable
  /\ api_key \in BOOLEAN
  /\ start_file = file /\ orig_file = file
  /\ RunIdle
  /\ hdr = <<>> /\ cols_ret = <<>> /\ phase = "off"
  /\ TmdbIdle /\ LoopIdle

(***************************************************************************)
(* One run of update_csv_with_trailers.                                    *)
(***************************************************************************)
\* the call: main() passes the parsed arguments (cli/main.py lines 87-94)
StartRun ==
  /\ pc \in {"idle", "done"} /\ runs < MaxRuns /\ phase = "off"
  /\ \E dr \in BOOLEAN, fo \in BOOLEAN, inc \in BOOLEAN :
       /\ dry_run' = dr /\ force' = fo /\ req_related' = inc
       /\ include_related' = inc
  /\ pc' = "validate" /\ exc' = "" /\ exit_code' = None
  /\ delimiter' = "" /\ header' = <<>> /\ rows' = <<>>
  /\ messages' = {} /\ config_error' = NoConfigError
  /\ prompts' = {} /\ net_calls' = {} /\ opens' = {}
  /\ report' = NoReport /\ runs' = runs + 1
  /\ start_file' = file
  /\ UNCHANGED <<file, env_vars, col_vars,
                 tmdb_vars, loop_vars>>

\* lines 18-27
ValidateInput ==
  /\ pc = "validate"
  /\ IF ~file_exists
       THEN /\ messages' = messages \cup {"file_not_found"}
            /\ exit_code' = 1
            /\ pc' = "done"
       ELSE /\ pc' = IF include_related THEN "test_tmdb" ELSE "detect"
            /\ UNCHANGED <<messages, exit_code>>
  /\ UNCHANGED <<file, env_vars, arg_vars, include_related, exc, local_vars,
                 config_error, prompts, net_calls, opens, report, runs,
                 start_file, col_vars,
                 tmdb_vars, loop_vars>>

\* lines 29-36
TestTmdbConnection ==
  /\ pc = "test_tmdb"
  /\ \E answer \in TmdbAnswers :
       LET ok == test_tmdb_connection(api_key, answer) IN
         /\ include_related' = ok
         /\ messages' = IF ok THEN messages
                        ELSE messages \cup {"tmdb_unavailable"}
  /\ net_calls' = IF test_tmdb_calls(api_key)
                    THEN net_calls \cup {"person.search"} ELSE net_calls
  /\ pc' = "detect"
  /\ UNCHANGED <<file, env_vars, arg_vars, exc, exit_code, local_vars,
                 config_error, prompts, opens, report, runs, start_file,
                 col_vars,
                 tmdb_vars, loop_vars>>

\* the delimiters csv.Sniffer can report: characters of the sample
Sniffable(f) ==
  { d \in Delimiters :
      \E n \in 1..Len(f) : \E k \in 1..Len(f[n]) : f[n][k] = d }

\* line 40, detect_delimiter: opens the file for reading, sniffs the first
\* 1024 characters, falls back to ';' when the sniffer raises
DetectDelimiter ==
  /\ pc = "detect"
  /\ IF ~readable
       THEN /\ exc' = "PermissionError" /\ pc' = "except"
            /\ UNCHANGED <<file, delimiter, opens>>
     ELSE IF DetectOpenMode # "r"
       THEN /\ file' = open(file, DetectOpenMode)
            /\ opens' = opens \cup {DetectOpenMode}
            /\ exc' = "UnsupportedOperation" /\ pc' = "except"
            /\ UNCHANGED delimiter
     ELSE /\ opens' = opens \cup {DetectOpenMode}
          /\ \E sniffed \in Sniffable(file) \cup {"fail"} :
               delimiter' = IF sniffed = "fail" THEN ";" ELSE sniffed
          /\ pc' = "read"
          /\ UNCHANGED <<file, exc>>
  /\ UNCHANGED <<env_vars, arg_vars, include_related, exit_code, header,
                 rows, messages, config_error, prompts, net_calls, report,
                 runs, start_file, col_vars,
                 tmdb_vars, loop_vars>>

\* lines 44-49: header = next(reader); rows = list(reader)
ReadTable ==
  /\ pc = "read"
  /\ file' = open(file, ReadOpenMode)
  /\ opens' = opens \cup {ReadOpenMode}
  /\ IF ReadOpenMode # "r"
       THEN /\ exc' = "UnsupportedOperation" /\ pc' = "except"
            /\ UNCHANGED <<header, rows>>
     ELSE IF file = <<>>
       THEN /\ exc' = "StopIteration" /\ pc' = "except"
            /\ UNCHANGED <<header, rows>>
     ELSE /\ header' = ReadRow(file[1], delimiter)
          /\ rows' = [r \in 1..(Len(file) - 1) |-> ReadRow(file[r + 1], delimiter)]
          /\ pc' = "process"
          /\ exc' = exc
  /\ UNCHANGED <<env_vars, arg_vars, include_related, exit_code, delimiter,
                 messages, config_error, prompts, net_calls, report, runs,
                 start_file, col_vars,
                 tmdb_vars, loop_vars>>

\* the state after lines 54-217 ended with result res
ApplyTable(res, ret) ==
  /\ header' = res.header /\ rows' = res.rows
  /\ include_related' = res.include_related
  /\ prompts' = prompts \cup res.prompts
  /\ net_calls' = net_calls \cup res.calls
  /\ report' = res.report
  /\ file' = IF res.write
               THEN WriteTable(res.header, res.rows, delimiter)
               ELSE file
  /\ opens' = IF res.write THEN opens \cup {"w"} ELSE opens
  /\ config_error' =
       IF res.outcome = "missing_columns"
         THEN [shown |-> TRUE, missing |-> missing_cols(ret),
               available |-> header]
         ELSE config_error
  /\ messages' =
       IF res.outcome = "cancelled"
         THEN messages \cup {"operation_cancelled"}
       ELSE IF res.outcome = "complete"
         THEN messages \cup {IF dry_run THEN "dry_run_complete"
                                        ELSE "file_updated"}
       ELSE messages
  /\ exc' = IF res.outcome = "raised" THEN "ValueError" ELSE exc
  /\ pc' = IF res.outcome = "raised" THEN "except" ELSE "done"
  /\ exit_code' =
       IF res.outcome = "raised" THEN exit_code
       ELSE IF res.outcome = "missing_columns" THEN 1
       ELSE 0

\* what the user may answer to a prompt: input() is only reached in a live
\* run without force (lines 71 and 87)
PromptAnswers(dry, forced) == IF dry \/ forced THEN {TRUE} ELSE BOOLEAN

\* what a service may answer for each of n rows; a run that cannot reach
\* the lookup (lines 159-189) gets no answers to choose from
LookupAnswers(reached, n, answers) ==
  IF reached THEN [1..n -> answers]
  ELSE {[r \in 1..n |-> CHOOSE a \in answers : TRUE]}

\* line 52: the tuple find_column_indices returns is unpacked into
\* UnpackTargets names; a tuple of another length raises ValueError
Unpacks(ret) == Len(ret) = UnpackTargets

\* lines 52-217
ProcessTable ==
  /\ pc = "process"
  /\ IF ~Unpacks(find_column_indices(header))
       THEN /\ exc' = "ValueError" /\ pc' = "except"
            /\ UNCHANGED <<file, include_related, exit_code, header, rows,
                           messages, config_error, prompts, net_calls,
                           opens, report>>
       ELSE
         \E yes_t \in PromptAnswers(dry_run, force),
            yes_r \in PromptAnswers(dry_run, force),
            yts \in LookupAnswers(~dry_run, Len(rows), YoutubeResponses),
            rels \in LookupAnswers(~dry_run /\ include_related, Len(rows),
                                  RelatedResults) :
           ApplyTable(RunTable(header, rows, find_column_indices(header),
                               dry_run, force, include_related,
                               yes_t, yes_r, yts, rels),
                      find_column_indices(header))
  /\ UNCHANGED <<env_vars, arg_vars, delimiter, runs, start_file, col_vars,
                 tmdb_vars, loop_vars>>

\* lines 219-230: the message each handler prints
HandlerMessage(e) ==
  IF e = "FileNotFoundError" THEN "file_not_found"
  ELSE IF e = "PermissionError" THEN "permission_denied"
  ELSE IF e = "KeyboardInterrupt" THEN "cancelled_by_user"
  ELSE "unexpected_error"

\* lines 219-230: every handler reports and calls sys.exit(1)
ExceptHandler ==
  /\ pc = "except"
  /\ messages' = messages \cup {HandlerMessage(exc)}
  /\ exit_code' = 1
  /\ pc' = "done"
  /\ UNCHANGED <<file, env_vars, arg_vars, include_related, exc, local_vars,
                 config_error, prompts, net_calls, opens, report, runs,
                 start_file, col_vars,
                 tmdb_vars, loop_vars>>

\* the user interrupts the run: inside the try block (lines 38-217) the
\* interrupt goes to the handlers; before it (lines 18-36) nothing catches
\* it and the interpreter ends the process with a traceback
KeyboardInterrupt ==
  /\ pc \in {"validate", "test_tmdb", "detect", "read", "process"}
  /\ IF pc \in {"validate", "test_tmdb"}
       THEN /\ messages' = messages \cup {"traceback"}
            /\ exit_code' = 130
            /\ pc' = "done"
            /\ exc' = exc
       ELSE /\ exc' = "KeyboardInterrupt"
            /\ pc' = "except"
            /\ UNCHANGED <<messages, exit_code>>
  /\ UNCHANGED <<file, env_vars, arg_vars, include_related, local_vars,
                 config_error, prompts, net_calls, opens, report, runs,
                 start_file, col_vars,
                 tmdb_vars, loop_vars>>

Next ==
  \/ StartRun
  \/ ValidateInput
  \/ TestTmdbConnection
  \/ DetectDelimiter
  \/ ReadTable
  \/ ProcessTable
  \/ ExceptHandler
  \/ KeyboardInterrupt

Spec == Init /\ [][Next]_vars


(***************************************************************************)
(* The column detector on its own: every header of at most MaxCols names   *)
(* drawn from ColumnNames is given to find_column_indices.                 *)
(***************************************************************************)
ColFilmDirector ==
  <<"F","I","L","M"," ","D","I","R","E","C","T","O","R">>
ColReleaseDate == <<" ","R","e","l","e","a","s","e"," ","D","a","t","e"," ">>
ColVideoUrl == <<"V","i","d","e","o"," ","U","R","L">>
ColDateLink == <<"D","a","t","e"," ","l","i","n","k">>
ColSimilar == <<"S","i","m","i","l","a","r">>

ColumnNames ==
  { ColTitle, ColDirector, ColYear, ColTrailer, ColRelated, ColNotes,
    ColFilmDirector, ColReleaseDate, ColVideoUrl, ColDateLink, ColSimilar }

DetectorHeaders == UNION { [1..n -> ColumnNames] : n \in 0..MaxCols }

InitCols ==
  /\ hdr \in DetectorHeaders
  /\ cols_ret = <<>>
  /\ phase = "input"
  /\ file = <<>> /\ file_exists = FALSE /\ readable = TRUE /\ api_key = FALSE
  /\ start_file = <<>> /\ orig_file = <<>>
  /\ RunIdle /\ TmdbIdle /\ LoopIdle

\* the call find_column_indices(header)
DetectColumns ==
  /\ phase = "input"
  /\ cols_ret' = find_column_indices(hdr)
  /\ phase' = "done"
  /\ UNCHANGED <<file, env_vars, arg_vars, include_related, pc, exc, exit_code,
                 local_vars, messages, config_error, prompts, net_calls, opens,
                 report, runs, start_file, hdr, tmdb_vars, loop_vars>>

NextCols == DetectColumns

SpecCols == InitCols /\ [][NextCols]_vars

(***************************************************************************)
(* parse_multiple_directors on its own: the director field is made of at   *)
(* most MaxPieces pieces, names and separators, written one after another. *)
(***************************************************************************)
MaxPieces == 3

NameJoel  == <<"J","o","e","l"," ","C","o","e","n">>
NameEthan == <<"E","t","h","a","n"," ","C","o","e","n">>

\* the separators of a director field, bare and with blanks around them
SeparatorPieces ==
  { <<"&">>, <<" ","&"," ">>, <<",">>, <<","," ">>, <<"/">>, <<" ","+"," ">>,
    <<" ","a","n","d"," ">> }

\* other pieces: a one-letter name, a blank, the word without blanks, the
\* word in capitals
OtherPieces ==
  { <<"J">>, <<" ">>, AndWord, <<" ","A","N","D"," ">> }

DirectorPieces == {NameJoel, NameEthan} \cup SeparatorPieces \cup OtherPieces

RECURSIVE Concat(_)
Concat(pieces) ==
  IF pieces = <<>> THEN <<>> ELSE Head(pieces) \o Concat(Tail(pieces))

DirectorStrings ==
  { Concat(ps) : ps \in UNION { [1..n -> DirectorPieces] : n \in 0..MaxPieces } }

InitDirectors ==
  /\ director_string \in DirectorStrings
  /\ directors = <<>>
  /\ phase = "parse"
  /\ director_name = <<>> /\ current_movie_title = <<>>
  /\ lookups = <<>> /\ result = <<>>
  /\ hdr = <<>> /\ cols_ret = <<>>
  /\ file = <<>> /\ file_exists = FALSE /\ readable = TRUE /\ api_key = FALSE
  /\ start_file = <<>> /\ orig_file = <<>>
  /\ RunIdle /\ LoopIdle

\* the call parse_multiple_directors(director_string)
ParseDirectors ==
  /\ phase = "parse"
  /\ directors' = parse_multiple_directors(director_string)
  /\ phase' = "parsed"
  /\ UNCHANGED <<file, env_vars, arg_vars, include_related, pc, exc, exit_code,
                 local_vars, messages, config_error, prompts, net_calls, opens,
                 report, runs, start_file, hdr, cols_ret, director_string,
                 director_name, current_movie_title, lookups, result,
                 loop_vars>>

NextDirectors == ParseDirectors

SpecDirectors == InitDirectors /\ [][NextDirectors]_vars

(***************************************************************************)
(* get_director_popular_movies on its own: a director field of at most     *)
(* MaxDirectors names, a current title, and an answer of the film service  *)
(* for each director.                                                      *)
(***************************************************************************)
MaxDirectors == 2

TitleInception == <<"I","n","c","e","p","t","i","o","n">>
TitleInterstellar == <<"I","n","t","e","r","s","t","e","l","l","a","r">>
TitleOppenheimer == <<"O","p","p","e","n","h","e","i","m","e","r">>
TitleDirectorsCut ==
  TitleOppenheimer \o
  <<" ","(","D","i","r","e","c","t","o","r","'","s"," ","C","u","t",")">>
TitleDune == <<"D","u","n","e">>
TitlePartTwo == TitleDune \o <<":"," ","P","a","r","t"," ","T","w","o">>
TitleManOfSteel == <<"M","a","n"," ","o","f"," ","S","t","e","e","l">>

Credit(job, title, popularity) ==
  [job |-> job, title |-> title, popularity |-> popularity]

\* crew lists of a credits answer, in the order the service lists them
CrewLists ==
  { << Credit("Producer", TitleManOfSteel, 9),
       Credit("Director", lower(TitleInception), 2),
       Credit("Director", TitleInterstellar, 1),
       Credit("Director", TitleInception, 3) >>,
    << Credit("Director", TitleDune, 3),
       Credit("Director", TitleOppenheimer, 5),
       Credit("Director", TitleDirectorsCut, 4),
       Credit("Director", TitleInterstellar, 1) >>,
    << Credit("Director", TitleInterstellar, 2),
       Credit("Director", TitleInterstellar, 1),
       Credit("Director", TitleDune, 1) >>,
    << Credit("Producer", TitleManOfSteel, 9) >> }

ServiceAnswer(search, credits, crew) ==
  [search |-> search, credits |-> credits, crew |-> crew]

\* the person search raises, finds nobody, finds an entry without id; the
\* credits fetch raises; the credits arrive
ServiceAnswers ==
  { ServiceAnswer("error", "ok", <<>>), ServiceAnswer("none", "ok", <<>>),
    ServiceAnswer("noid", "ok", <<>>), ServiceAnswer("found", "error", <<>>) }
  \cup { ServiceAnswer("found", "ok", crew) : crew \in CrewLists }

\* a director field of n names joined by " & "
RECURSIVE DirectorField(_)
DirectorField(n) ==
  IF n = 0 THEN <<>>
  ELSE IF n = 1 THEN NameJoel
  ELSE DirectorField(n - 1) \o <<" ","&"," ">> \o
       (IF n % 2 = 0 THEN NameEthan ELSE NameJoel)

CurrentTitles ==
  { <<>>, <<" ">>, TitleOppenheimer, lower(TitleInception), TitlePartTwo }

InitFilms ==
  /\ \E n \in 0..MaxDirectors :
       /\ director_name = DirectorField(n)
       /\ lookups \in [1..n -> ServiceAnswers]
  /\ current_movie_title \in CurrentTitles
  /\ api_key \in BOOLEAN
  /\ result = <<>>
  /\ phase = "films"
  /\ director_string = <<>> /\ directors = <<>>
  /\ hdr = <<>> /\ cols_ret = <<>>
  /\ file = <<>> /\ file_exists = FALSE /\ readable = TRUE
  /\ start_file = <<>> /\ orig_file = <<>>
  /\ RunIdle /\ LoopIdle

\* the call get_director_popular_movies(director_name, current_movie_title,
\* limit=3)
GetFilms ==
  /\ phase = "films"
  /\ result' = get_director_popular_movies(api_key, director_name,
                                           current_movie_title, RelatedLimit,
                                           lookups)
  /\ phase' = "films_done"
  /\ UNCHANGED <<file, env_vars, arg_vars, include_related, pc, exc, exit_code,
                 local_vars, messages, config_error, prompts, net_calls, opens,
                 report, runs, start_file, hdr, cols_ret, director_string,
                 directors, director_name, current_movie_title, lookups,
                 loop_vars>>

NextFilms == GetFilms

SpecFilms == InitFilms /\ [][NextFilms]_vars

(***************************************************************************)
(* The row loop and the summary (processor.py lines 100-217) on their own, *)
(* one row at a time, entered with the five column variables that line 52  *)
(* binds when the detector supplies a fifth value.  No run of the driver   *)
(* as it stands gets here: line 52 raises.                                 *)
(***************************************************************************)
\* rows whose title is whitespace, whose year is not a number, whose year
\* is whitespace, besides the rows of the input files
LoopRowKinds == RowKinds \cup {"spacetitle", "badyear", "spaceyear"}

LoopCell(kind, i) ==
  IF kind = "spacetitle" /\ i = 1 THEN <<" ">>
  ELSE IF kind = "badyear" /\ i = 3 THEN <<"2","0","x","6">>
  ELSE IF kind = "spaceyear" /\ i = 3 THEN <<" ">>
  ELSE IF kind \in RowKinds THEN InputCell(kind, i)
  ELSE InputCell("blank", i)

LoopRows(kinds, width) ==
  [r \in 1..Len(kinds) |-> [i \in 1..width |-> LoopCell(kinds[r], i)]]

LoopRowKindSeqs == UNION { [1..n -> LoopRowKinds] : n \in 0..MaxRows }

\* the headers that have the three required columns
LoopHeaders ==
  { h \in InputHeaders : missing_cols(find_column_indices(h)) = <<>> }

\* what the fifth column variable may hold: None, or the index of a column
\* named Related films
RelatedIndexes(h) ==
  {None} \cup { k - 1 : k \in { j \in 1..Len(h) : h[j] = ColRelated } }

\* the loop is entered with the table as lines 68-98 leave it (ts and rs
\* are the results of the two column stages of a forced run)
EnterLoop(ts, rs, c, d, h0, rows0) ==
  /\ header = rs.header /\ rows = rs.rows
  /\ include_related = rs.include_related
  /\ cols_ret = <<c[1], c[2], c[3], ts.trailer_col, rs.related_films_col>>
  /\ delimiter = d
  /\ file = WriteTable(h0, rows0, d)

AfterTrailerStage(ts, c, c5, dry, incl, d, h0, rows0) ==
  EnterLoop(ts, RelatedStage(ts.header, ts.rows, c5, dry, TRUE, incl, TRUE),
            c, d, h0, rows0)

InitLoop ==
  /\ \E h0 \in LoopHeaders, kinds \in LoopRowKindSeqs, d \in {";"},
        incl \in BOOLEAN :
       \E c5 \in RelatedIndexes(h0) :
         /\ dry_run \in BOOLEAN
         /\ req_related = incl
         /\ AfterTrailerStage(
              TrailerStage(h0, LoopRows(kinds, Len(h0)),
                           find_column_indices(h0)[4], dry_run, TRUE, TRUE),
              find_column_indices(h0), c5, dry_run, incl, d, h0,
              LoopRows(kinds, Len(h0)))
  /\ force = TRUE
  /\ phase = "loop" /\ row_i = 0 /\ counts = NoCounts /\ row_log = <<>>
  /\ start_file = file /\ orig_file = file
  /\ file_exists = TRUE /\ readable = TRUE /\ api_key = include_related
  /\ pc = "process" /\ exc = "" /\ exit_code = None
  /\ messages = {} /\ config_error = NoConfigError
  /\ prompts = {} /\ net_calls = {} /\ opens = {ReadOpenMode}
  /\ report = NoReport /\ runs = 1
  /\ hdr = <<>> /\ TmdbIdle

\* the loop variables after a row, taken from the loop state acc
StoreRow(acc, r) ==
  /\ rows' = acc.rows
  /\ counts' = [processed |-> acc.processed, skipped |-> acc.skipped,
                found |-> acc.found, related_found |-> acc.related_found]
  /\ net_calls' = acc.calls
  /\ row_log' = Append(row_log, [status |-> r.status, calls |-> r.calls])
  /\ row_i' = row_i + 1
  /\ phase' = IF acc.raised THEN "loop_raised" ELSE "loop"
  /\ exc' = IF acc.raised THEN "ValueError" ELSE exc
  /\ pc' = IF acc.raised THEN "except" ELSE pc

RowStep(r) ==
  StoreRow(AfterRow(LoopState(rows, counts.processed, counts.skipped,
                              counts.found, counts.related_found, net_calls,
                              FALSE),
                    row_i + 1, r),
           r)

\* lines 119-193 for the next row; yts[1] and rels[1] are what the two
\* services answer if the run can ask them
LoopRow ==
  /\ phase = "loop" /\ row_i < Len(rows)
  /\ \E yts \in LookupAnswers(~dry_run, 1, YoutubeResponses),
        rels \in LookupAnswers(~dry_run /\ include_related, 1,
                              RelatedResults) :
       RowStep(ProcessRow(rows[row_i + 1], cols_ret, dry_run, include_related,
                          yts[1], rels[1]))
  /\ UNCHANGED <<file, env_vars, arg_vars, include_related, exit_code,
                 delimiter, header, messages, config_error, prompts,
                 opens, report, runs, start_file, hdr, cols_ret, tmdb_vars>>

\* lines 195-217 after the last row: the write of a live run, the summary
Summarize ==
  /\ phase = "loop" /\ row_i = Len(rows)
  /\ file' = IF dry_run THEN file ELSE WriteTable(header, rows, delimiter)
  /\ opens' = IF dry_run THEN opens ELSE opens \cup {"w"}
  /\ report' = [shown |-> TRUE, total |-> Len(rows),
                processed |-> counts.processed, skipped |-> counts.skipped,
                found |-> counts.found]
  /\ messages' = messages \cup {IF dry_run THEN "dry_run_complete"
                                           ELSE "file_updated"}
  /\ phase' = "summary" /\ pc' = "done" /\ exit_code' = 0
  /\ UNCHANGED <<env_vars, arg_vars, include_related, exc, local_vars,
                 config_error, prompts, net_calls, runs, start_file, hdr,
                 cols_ret, tmdb_vars, loop_vars>>

NextLoop == LoopRow \/ Summarize

SpecLoop == InitLoop /\ [][NextLoop]_vars

(***************************************************************************)
(* Properties.                                                             *)
(***************************************************************************)
\* the keyword set the specification gives the related-films role
related_keywords == << <<"r","e","l","a","t","e","d">>,
                       <<"s","i","m","i","l","a","r">> >>

\* the roles in the order the detector tries them
RoleKeywords ==
  <<title_keywords, director_keywords, year_keywords, trailer_keywords,
    related_keywords>>

\* the index a returned tuple gives role k, None when it gives none
RoleIndex(ret, k) == IF k <= Len(ret) THEN ret[k] ELSE None

\* column i (0-based) of header h matches role k
Matches(h, i, k) == AnyKeywordIn(RoleKeywords[k], strip(lower(h[i + 1])))

\* column i is assigned to a role tried before role k
TakenEarlier(ret, i, k) == \E j \in 1..(k - 1) : RoleIndex(ret, j) = i

\* the columns role k may take: matching, and not taken by an earlier role
Candidates(h, ret, k) ==
  { i \in 0..(Len(h) - 1) : Matches(h, i, k) /\ ~TakenEarlier(ret, i, k) }

FirstCandidate(h, ret, k) ==
  IF Candidates(h, ret, k) = {} THEN None
  ELSE CHOOSE i \in Candidates(h, ret, k) :
         \A j \in Candidates(h, ret, k) : i <= j

RoleAssigned(h, ret, k) == RoleIndex(ret, k) = FirstCandidate(h, ret, k)

\* C1: for every header and each of the five roles title, director, year,
\* trailer and related-films, find_column_indices gives the role the first
\* column whose name contains one of the role's keywords (case-insensitive
\* substring) and that no earlier role has taken, and none if there is no
\* such column.
C1_EveryRoleAssigned ==
  phase = "done" => \A k \in 1..5 : RoleAssigned(hdr, cols_ret, k)


\* the header and the data rows of file text f read with delimiter d
HeaderOf(f, d) == ReadRow(f[1], d)
DataRows(f, d) == [r \in 1..(Len(f) - 1) |-> ReadRow(f[r + 1], d)]

\* the run has read a table from the file it started on
TableRead == delimiter # "" /\ start_file # <<>> /\ ReadOpenMode \in opens

\* the run ended and no user interruption cut it short
EndedUninterrupted ==
  /\ pc = "done"
  /\ exc # "KeyboardInterrupt"
  /\ "traceback" \notin messages

\* the column roles of the header the run started on
StartCols == find_column_indices(HeaderOf(start_file, delimiter))

\* text of the form https://www.youtube.com/watch?v=<11 characters>
IsWatchUrl(cell) ==
  /\ Len(cell) = Len(WatchPrefix) + VideoIdLen
  /\ SubSeq(cell, 1, Len(WatchPrefix)) = WatchPrefix
  /\ \A k \in (Len(WatchPrefix) + 1)..Len(cell) : ~IsSpace(cell[k])

\* s is an initial segment of t
IsPrefix(s, t) == Len(s) <= Len(t) /\ SubSeq(t, 1, Len(s)) = s

\* C2: a live run with force on a file whose header has title, director
\* and year columns but no trailer column ends normally with the file
\* rewritten: the header has gained a trailing Trailer column, the number
\* of data rows is unchanged, and every trailer cell is empty or a watch URL.
C2_ForcedRunAddsTrailer ==
  ( /\ EndedUninterrupted /\ TableRead /\ force /\ ~dry_run
    /\ missing_cols(StartCols) = <<>>
    /\ StartCols[4] = None )
  =>
  LET h0 == HeaderOf(start_file, delimiter) IN
    /\ exit_code = 0
    /\ file # <<>>
    /\ Len(file) = Len(start_file)
    /\ IsPrefix(Append(h0, ColTrailer), HeaderOf(file, delimiter))
    /\ \A r \in 1..(Len(file) - 1) :
         LET row == DataRows(file, delimiter)[r] IN
           /\ Len(row) > Len(h0)
           /\ row[Len(h0) + 1] = <<>> \/ IsWatchUrl(row[Len(h0) + 1])

\* C3: a run with dry_run set never opens the file for writing, and the
\* file on disk stays what it was when the run started, at every step and
\* on every path the run ends on.
C3_PreviewLeavesFile ==
  dry_run => (file = start_file /\ "w" \notin opens)

\* a preview run that read its table has ended, the file untouched
C3_Witness ==
  /\ dry_run /\ pc = "done" /\ TableRead
  /\ Len(start_file) > 1
  /\ file = start_file

\* C4: a run with dry_run set issues no outbound network call at any step,
\* also when include_related is true and an API credential is configured.
C4_PreviewNoNetwork ==
  dry_run => net_calls = {}

\* every data row of f has a non-blank cell in columns tc and rc (0-based)
AllPopulated(f, d, tc, rc) ==
  \A r \in 1..(Len(f) - 1) :
    LET row == DataRows(f, d)[r] IN
      /\ Len(row) > tc /\ Filled(row[tc + 1])
      /\ Len(row) > rc /\ Filled(row[rc + 1])

\* C5: on a file whose trailer and related-films cells are all non-blank, a
\* run leaves the file unchanged and reports zero processed and N skipped,
\* N the number of data rows; so does a second run.
C5_PopulatedFileIdempotent ==
  ( /\ EndedUninterrupted /\ TableRead
    /\ missing_cols(StartCols) = <<>>
    /\ StartCols[4] # None
    /\ FirstCandidate(HeaderOf(start_file, delimiter), StartCols, 5) # None
    /\ AllPopulated(start_file, delimiter, StartCols[4],
                    FirstCandidate(HeaderOf(start_file, delimiter),
                                   StartCols, 5)) )
  =>
  /\ file = start_file
  /\ report.shown
  /\ report.processed = 0
  /\ report.skipped = Len(start_file) - 1

\* how many columns of header h are named name
Named(h, name) == Cardinality({k \in 1..Len(h) : h[k] = name})

CellAt(row, c) == IF c >= 0 /\ c < Len(row) THEN row[c + 1] ELSE <<>>

\* table t1 differs from table t0 only in cells of columns tc and rc that
\* were blank in t0, and in cells t0 did not have
OnlyBlanksFilled(t0, t1, tc, rc) ==
  /\ Len(t1) = Len(t0)
  /\ \A r \in 1..Len(t0) :
       /\ Len(t1[r]) >= Len(t0[r])
       /\ \A k \in 1..Len(t0[r]) :
            \/ t1[r][k] = t0[r][k]
            \/ (k - 1 \in {tc, rc} /\ ~Filled(t0[r][k]))

\* C7: a run never overwrites existing content: against the file the run
\* started on, only blank cells of the trailer and related-films columns
\* differ, every non-blank cell of these columns and every cell of every
\* other column is what it was.
C7_NeverOverwrites ==
  \/ file = start_file
  \/ /\ delimiter # "" /\ start_file # <<>>
     /\ file # <<>>
     /\ IsPrefix(HeaderOf(start_file, delimiter), HeaderOf(file, delimiter))
     /\ OnlyBlanksFilled(
          DataRows(start_file, delimiter), DataRows(file, delimiter),
          StartCols[4],
          FirstCandidate(HeaderOf(start_file, delimiter), StartCols, 5))

\* a live run has ended on a file with a row whose trailer cell was filled
C7_Witness ==
  /\ pc = "done" /\ ~dry_run /\ force /\ TableRead
  /\ StartCols[4] # None
  /\ \E r \in 1..(Len(start_file) - 1) :
       /\ Filled(CellAt(DataRows(start_file, delimiter)[r], StartCols[4]))
       /\ CellAt(DataRows(file, delimiter)[r], StartCols[4]) =
            CellAt(DataRows(start_file, delimiter)[r], StartCols[4])

RelatedColumns(h) == Named(h, ColRelated)

\* file texts f0 and f1 of equal length, read with delimiter d, have as
\* many Related films columns and the same content in each of f0's
SameRelatedCells(f0, f1, d) ==
  /\ RelatedColumns(HeaderOf(f1, d)) = RelatedColumns(HeaderOf(f0, d))
  /\ \A k \in 1..Len(HeaderOf(f0, d)) :
       HeaderOf(f0, d)[k] = ColRelated =>
         \A r \in 1..(Len(f0) - 1) :
           CellAt(DataRows(f1, d)[r], k - 1) = CellAt(DataRows(f0, d)[r], k - 1)

\* C9: without an API credential the related-films feature is off for the
\* whole run even when include_related was requested: once the connection
\* test is through include_related is false, no related-films column is
\* appended, no cell is written, and the related-films adapter is not called.
C9_NoCredentialNoRelated ==
  ~api_key =>
    /\ pc \in {"detect", "read", "process", "except"} => ~include_related
    /\ pc = "done" /\ file_exists /\ "traceback" \notin messages
         => ~include_related
    /\ "get_director_popular_movies" \notin net_calls
    /\ "related" \notin prompts
    /\ \/ file = start_file
       \/ /\ delimiter # "" /\ start_file # <<>>
          /\ Len(file) = Len(start_file)
          /\ SameRelatedCells(start_file, file, delimiter)
    /\ start_file # <<>> /\ delimiter # "" /\ header # <<>>
         => \/ header = HeaderOf(start_file, delimiter)
            \/ RelatedColumns(header) =
                 RelatedColumns(HeaderOf(start_file, delimiter))

\* a run that asked for related films without a credential has ended
C9_Witness ==
  /\ ~api_key /\ req_related /\ pc = "done" /\ TableRead
  /\ ~include_related /\ "tmdb_unavailable" \in messages

\* C10: when the header lacks a column for title, director or year the run
\* aborts with a configuration error that names the missing roles and lists
\* the available headers, before any row is processed: no adapter is
\* invoked, no prompt is shown, the file is not written.
C10_MissingColumnsReported ==
  ( /\ EndedUninterrupted /\ TableRead
    /\ exc \notin {"StopIteration", "UnsupportedOperation", "PermissionError"}
    /\ missing_cols(StartCols) # <<>> )
  =>
  /\ config_error.shown
  /\ config_error.missing = missing_cols(StartCols)
  /\ config_error.available = HeaderOf(start_file, delimiter)
  /\ exit_code = 1
  /\ net_calls \subseteq {"person.search"}
  /\ prompts = {}
  /\ file = start_file /\ "w" \notin opens

\* C11: in a live run a failed lookup for a row never aborts the run: a run
\* that read its table, found the title, director and year columns and was
\* not cancelled at a prompt returns normally, with the summary shown and
\* the file written with as many rows as it had.
C11_FailedLookupNeverAborts ==
  ( /\ EndedUninterrupted /\ TableRead /\ ~dry_run
    /\ exc \notin {"StopIteration", "UnsupportedOperation", "PermissionError"}
    /\ missing_cols(StartCols) = <<>>
    /\ "operation_cancelled" \notin messages )
  =>
  /\ exit_code = 0
  /\ "unexpected_error" \notin messages
  /\ report.shown
  /\ "w" \in opens
  /\ Len(file) = Len(start_file)

\* name holds the word and with whitespace on both sides
HasAndWord(name) ==
  \E i \in 2..(Len(name) - 3) :
    /\ IsSpace(name[i - 1]) /\ SubSeq(name, i, i + 2) = AndWord
    /\ IsSpace(name[i + 3])

\* the names occur in s from index from on, one after another in this order
RECURSIVE OccurInOrder(_, _, _)
OccurInOrder(names, s, from) ==
  \/ names = <<>>
  \/ \E i \in from..(Len(s) - Len(Head(names)) + 1) :
       /\ SubSeq(s, i, i + Len(Head(names)) - 1) = Head(names)
       /\ OccurInOrder(Tail(names), s, i + Len(Head(names)))

\* C14: parse_multiple_directors splits on comma, ampersand, slash, plus
\* and the whitespace-delimited word and, trims each name, discards names
\* of length <= 1 and keeps the order: no name it returns holds a
\* separator, is untrimmed or shorter than two characters, the names occur
\* in the field in the order returned, and two full names joined by any
\* one separator come back as exactly these two names.
C14_DirectorsSplit ==
  phase = "parsed" =>
    /\ \A k \in 1..Len(directors) :
         /\ Len(directors[k]) > 1
         /\ strip(directors[k]) = directors[k]
         /\ \A c \in 1..Len(directors[k]) :
              directors[k][c] \notin SeparatorChars \cup {","}
         /\ ~HasAndWord(directors[k])
    /\ OccurInOrder(directors, director_string, 1)
    /\ \A a \in {NameJoel, NameEthan}, b \in {NameJoel, NameEthan} :
         \A sep \in SeparatorPieces :
           director_string = a \o sep \o b => directors = <<a, b>>

\* the field "Joel Coen and Ethan Coen" has been split into the two names
C14_Witness ==
  /\ phase = "parsed"
  /\ director_string = NameJoel \o <<" ","a","n","d"," ">> \o NameEthan
  /\ directors = <<NameJoel, NameEthan>>

\* C12: get_director_popular_movies deduplicates case-insensitively: no two
\* titles of the result are equal when compared in lower case.
C12_DedupIgnoresCase ==
  phase = "films_done" =>
    \A i \in 1..Len(result), j \in 1..Len(result) :
      i # j => lower(result[i]) # lower(result[j])

\* title a, compared case-insensitively, equals b, contains it or is
\* contained in it
RelatedTo(a, b) ==
  \/ lower(a) = lower(b)
  \/ Contains(lower(a), lower(b))
  \/ Contains(lower(b), lower(a))

\* C13 as stated: for every non-empty current title the result holds no
\* title that case-insensitively equals it, contains it or is contained in
\* it.
C13_NoneRelatedToCurrent ==
  phase = "films_done" /\ current_movie_title # <<>> =>
    \A k \in 1..Len(result) : ~RelatedTo(result[k], current_movie_title)

\* C13 amended: the same for every current title that is not blank, that
\* is, not empty once trimmed.
C13_NoneRelatedToNonBlankCurrent ==
  phase = "films_done" /\ strip(current_movie_title) # <<>> =>
    \A k \in 1..Len(result) : ~RelatedTo(result[k], current_movie_title)

\* with current title Oppenheimer, the candidates Oppenheimer and
\* Oppenheimer (Director's Cut) are dropped and Dune is kept
C13_Witness ==
  /\ phase = "films_done" /\ api_key
  /\ current_movie_title = TitleOppenheimer
  /\ Len(lookups) = 1 /\ lookups[1].search = "found"
  /\ lookups[1].credits = "ok"
  /\ \E k \in 1..Len(lookups[1].crew) :
       lookups[1].crew[k].title = TitleDirectorsCut
  /\ result = <<TitleDune>>

\* the service answers the lookup of a director with credits
LookupOk(answer) == answer.search = "found" /\ answer.credits = "ok"

\* title t is in the list movies
Listed(t, movies) == \E r \in 1..Len(movies) : movies[r] = t

\* C15: with several directors, a failed lookup for one of them (nobody
\* found, no id, no directing credits, an error of the person search or of
\* the credits fetch) does not abort the others: every film the service
\* returns for a director whose lookup succeeds, within that director's
\* share, is in the result unless it is related to the current title or
\* the result is full.
C15_FailedDirectorKeepsOthers ==
  phase = "films_done" /\ api_key =>
    \A k \in 1..Len(lookups) :
      LookupOk(lookups[k]) =>
        \A t \in { TopTitles(lookups[k].crew,
                             movies_per_director(Len(lookups), RelatedLimit))[m] :
                     m \in 1..Len(TopTitles(lookups[k].crew,
                             movies_per_director(Len(lookups), RelatedLimit))) } :
          \/ Listed(t, result)
          \/ /\ strip(current_movie_title) # <<>>
             /\ RelatedTo(strip(t), strip(current_movie_title))
          \/ Len(result) = RelatedLimit

\* the person search failed for the first of two directors and the film of
\* the second is returned
C15_Witness ==
  /\ phase = "films_done" /\ api_key
  /\ Len(lookups) = 2
  /\ lookups[1].search = "error"
  /\ LookupOk(lookups[2])
  /\ current_movie_title = <<>>
  /\ result = <<TitleOppenheimer>>

\* how many rows the log holds with the given status
Logged(status) ==
  Cardinality({ i \in 1..Len(row_log) : row_log[i].status = status })

\* a cell that is empty or holds whitespace only
Blank(cell) == ~Filled(cell)

\* row lacks a title, a director or a year
LacksRequired(row, c) ==
  Blank(CellAt(row, c[1])) \/ Blank(CellAt(row, c[2])) \/ Blank(CellAt(row, c[3]))

\* row needs neither a trailer nor related films
NothingNeeded(row, c, incl) ==
  /\ ~Blank(CellAt(row, c[4]))
  /\ ~incl \/ c[5] = None \/ ~Blank(CellAt(row, c[5]))

\* C16: in a run that reaches the summary every data row is counted once,
\* as skipped or as processed: processed + skipped = total rows, trailers
\* found <= processed, a skipped row lacks a title, a director or a year or
\* needs nothing, and no adapter was invoked for a skipped row.  The counts
\* add up after every row of the loop as well.
C16_EveryRowCountedOnce ==
  /\ phase \in {"loop", "summary"} =>
       /\ counts.processed + counts.skipped = row_i
       /\ counts.found <= counts.processed
  /\ phase = "summary" =>
       /\ report.shown /\ report.total = Len(rows)
       /\ Len(row_log) = report.total
       /\ report.processed + report.skipped = report.total
       /\ report.found <= report.processed
       /\ report.processed = Logged("processed")
       /\ report.skipped = Logged("skipped")
       /\ \A i \in 1..Len(row_log) :
            /\ row_log[i].status \in {"skipped", "processed"}
            /\ row_log[i].status = "skipped" =>
                 /\ row_log[i].calls = {}
                 /\ \/ LacksRequired(rows[i], cols_ret)
                    \/ NothingNeeded(rows[i], cols_ret, include_related)

\* a live run has reached the summary with one row skipped and one row
\* processed, for which a trailer was looked up
C16_Witness ==
  /\ phase = "summary" /\ ~dry_run
  /\ report.skipped = 1 /\ report.processed = 1 /\ report.total = 2
  /\ \E i \in 1..Len(row_log) :
       row_log[i].status = "processed" /\ "search_youtube" \in row_log[i].calls

=============================================================================
